---- MODULE Spec2Model ----
(***************************************************************************)
(* A model of reqwest's request execution engine: the Client               *)
(* configuration (client.rs), the RequestBuilder and its send loop         *)
(* (client.rs), the RedirectPolicy decision (redirect.rs) and the Error    *)
(* values send returns (error.rs).                                         *)
(***************************************************************************)
EXTENDS Integers, Sequences, FiniteSets, TLC

VARIABLES
    redirect_policy,  \* ClientRef.redirect_policy
    auto_ungzip,      \* ClientRef.auto_ungzip
    builder,          \* the RequestBuilder (method, url, headers, body)
    method,           \* send's local: current method
    url,              \* send's local: current URL
    headers,          \* send's local: current headers
    body,             \* send's local: current body (Option<Body>)
    urls,             \* send's local: the visited history
    pc,               \* where the caller / send is
    sent,             \* the URLs requested from the transport, in order
    req,              \* the last request handed to the transport
    res,              \* the last response the transport returned
    decision,         \* the last RedirectAttempt and the Action it got
    result,           \* what send returned
    hyper,            \* ClientRef.hyper: the lock and the transport handle's timeouts
    timeouts,         \* where each caller of Client::timeout is
    peer              \* where a second send on a clone of the client is

vars == <<redirect_policy, auto_ungzip, builder, method, url, headers, body,
          urls, pc, sent, req, res, decision, result, hyper, timeouts, peer>>

----------------------------------------------------------------------------
(* Bounds of the model *)

\* Policy::Limit(max) is explored for max in 0..MaxLimit and for the default.
MaxLimit == 2
\* Transport calls one send may make under a built-in policy.
MaxHops == 11
\* Transport calls one send may make under a caller-supplied policy.
MaxCustomHops == 6
\* How often a send under a caller-supplied policy may be led back to a URL it
\* already requested.
MaxRevisits == 1
\* Longest history handed to the policy when it is applied on its own.
MaxHist == 3
\* Transport calls of a send whose caller set headers send has defaults for.
MaxHeaderHops == 3
\* Transport calls of a send during which the policy is replaced.
MaxReconfigureHops == 4
\* Transport calls of a send that shares the client with other threads.
MaxLockHops == 3

\* RedirectPolicy::default() is limited(10).
DefaultLimit == 10

----------------------------------------------------------------------------
(* Values *)

Range(s) == {s[i] : i \in 1..Len(s)}

Methods == {"Get", "Head", "Post"}

NoUrl == [host |-> "", path |-> 0]

\* The URL universe: http://<host>/<path>, one URL per path.
HostOf(k) == IF k = 3 THEN "foo"
             ELSE IF k = 7 THEN "example.domain"
             ELSE IF k <= 2 THEN "a" ELSE "b"

U(k) == [host |-> HostOf(k), path |-> k]

NumUrls == MaxHops + 1

\* Url::to_string: the serialisation of a URL, a header value.
UrlToString(u) == [v |-> "url", u |-> u]

Str(s) == [v |-> s, u |-> NoUrl]

NoHeader == Str("")

HeaderNames == {"UserAgent", "Accept", "AcceptEncoding", "Range", "Referer",
                "Authorization", "ContentType"}

CallerHeaderNames == {"Referer", "Authorization"}

EmptyHeaders == [h \in HeaderNames |-> NoHeader]

Has(hs, h) == hs[h] # NoHeader

\* Location header values: a relative reference, an absolute URL, or text
\* that does not parse.
NoLocation == [kind |-> "None", host |-> "", path |-> 0]
BadLocation == [kind |-> "Bad", host |-> "", path |-> 0]
RelLocation(p) == [kind |-> "Rel", host |-> "", path |-> p]
AbsLocation(u) == [kind |-> "Abs", host |-> u.host, path |-> u.path]

\* A join that falls back to the base URL when the Location does not parse.
JoinLenient(base, loc) ==
    IF loc.kind = "Rel" THEN [ok |-> TRUE, url |-> [host |-> base.host, path |-> loc.path]]
    ELSE IF loc.kind = "Abs" THEN [ok |-> TRUE, url |-> [host |-> loc.host, path |-> loc.path]]
    ELSE [ok |-> TRUE, url |-> base]

\* Url::join(base, reference)
Join(base, loc) ==
    IF loc.kind = "Rel" THEN [ok |-> TRUE, url |-> [host |-> base.host, path |-> loc.path]]
    ELSE IF loc.kind = "Abs" THEN [ok |-> TRUE, url |-> [host |-> loc.host, path |-> loc.path]]
    ELSE [ok |-> FALSE, url |-> NoUrl]

NoRes == [status |-> 0, url |-> NoUrl, hop |-> 0, location |-> NoLocation]

NoResult == [kind |-> "None", res |-> NoRes, url |-> NoUrl, ungzip |-> FALSE]

NoReq == [method |-> "", url |-> NoUrl, headers |-> EmptyHeaders, body |-> "None"]

NoBuilder == [method |-> "", url |-> [ok |-> FALSE, url |-> NoUrl],
              headers |-> EmptyHeaders, body |-> "None"]

----------------------------------------------------------------------------
(* redirect.rs: the policy and its decision *)

PolicyNone == [kind |-> "None", max |-> 0, f |-> ""]
PolicyLimit(max) == [kind |-> "Limit", max |-> max, f |-> ""]
PolicyCustom(f) == [kind |-> "Custom", max |-> 0, f |-> f]

\* RedirectPolicy::default()
DefaultPolicy == PolicyLimit(DefaultLimit)

NoDecision == [policy |-> PolicyNone, next |-> NoUrl, previous |-> <<>>, action |-> "None"]

\* The caller-supplied predicates explored: one that follows everything, the
\* one of test_redirect_policy_custom and the one of the documentation of
\* RedirectPolicy::custom.
CustomNames == {"FollowAll", "StopFoo", "DocExample"}

BuiltinPolicies == {PolicyNone} \cup {PolicyLimit(n) : n \in (0..MaxLimit) \cup {DefaultLimit}}

CustomPolicies == {PolicyCustom(f) : f \in CustomNames}

\* The closure held by Policy::Custom, applied to a RedirectAttempt.
CustomPolicy(f, next, previous) ==
    CASE f = "FollowAll" -> "Follow"
      [] f = "StopFoo" -> IF next.host = "foo" THEN "Stop" ELSE "Follow"
      [] f = "DocExample" -> IF Len(previous) > 5 THEN "TooManyRedirects"
                             ELSE IF next.host = "example.domain" THEN "Stop"
                             ELSE "Follow"

\* Limit(max) with the loop check made before the limit check.
LimitPolicyLoopFirst(max, next, previous) ==
    IF next \in Range(previous) THEN "LoopDetected"
    ELSE IF Len(previous) = max THEN "TooManyRedirects"
    ELSE "Follow"

\* Limit(max) with the loop check made against the last visited URL only.
LimitPolicyLastOnly(max, next, previous) ==
    IF Len(previous) = max THEN "TooManyRedirects"
    ELSE IF Len(previous) > 0 /\ next = previous[Len(previous)] THEN "LoopDetected"
    ELSE "Follow"

\* Limit(max) that gives up only once the history is longer than max.
LimitPolicyBeyondMax(max, next, previous) ==
    IF Len(previous) > max THEN "TooManyRedirects"
    ELSE IF next \in Range(previous) THEN "LoopDetected"
    ELSE "Follow"

\* Limit(max) whose loop check leaves out the first URL of the history.
LimitPolicySkipFirst(max, next, previous) ==
    IF Len(previous) = max THEN "TooManyRedirects"
    ELSE IF \E i \in 2..Len(previous) : previous[i] = next THEN "LoopDetected"
    ELSE "Follow"

\* The Policy::Limit(max) arm of RedirectPolicy::redirect.
LimitPolicy(max, next, previous) ==
    IF Len(previous) = max THEN "TooManyRedirects"
    ELSE IF next \in Range(previous) THEN "LoopDetected"
    ELSE "Follow"

\* Policy::None answering follow() instead of stop().
NonePolicyFollow(next, previous) == "Follow"

\* The Policy::None arm of RedirectPolicy::redirect.
NonePolicy(next, previous) == "Stop"

\* redirect with the loop check made for every policy, custom ones included.
redirectLoopChecked(policy, next, previous) ==
    IF policy.kind # "None" /\ next \in Range(previous) THEN "LoopDetected"
    ELSE CASE policy.kind = "Custom" -> CustomPolicy(policy.f, next, previous)
           [] policy.kind = "Limit" -> LimitPolicy(policy.max, next, previous)
           [] policy.kind = "None" -> NonePolicy(next, previous)

\* RedirectPolicy::redirect
redirect(policy, next, previous) ==
    CASE policy.kind = "Custom" -> CustomPolicy(policy.f, next, previous)
      [] policy.kind = "Limit" -> LimitPolicy(policy.max, next, previous)
      [] policy.kind = "None" -> NonePolicy(next, previous)

\* A decision taken with the policy of the send's first decision.
check_redirectFirstPolicy(policy, next, previous) ==
    LET p == IF decision.action = "None" THEN policy ELSE decision.policy
    IN [policy |-> p, next |-> next, previous |-> previous,
        action |-> redirect(p, next, previous)]

\* check_redirect: the RedirectAttempt handed to the policy, and its Action
check_redirect(policy, next, previous) ==
    [policy |-> policy, next |-> next, previous |-> previous,
     action |-> redirect(policy, next, previous)]

----------------------------------------------------------------------------
(* error.rs and response.rs: what send returns *)

\* ::response::new(res, auto_ungzip) wrapped in Ok
ResponseNew(r, gzip) == [kind |-> "Ok", res |-> r, url |-> NoUrl, ungzip |-> gzip]

\* Error { kind, url }; url = NoUrl stands for None
ErrorValue(kind, u) == [kind |-> kind, res |-> NoRes, url |-> u, ungzip |-> FALSE]

loop_detected(u) == ErrorValue("RedirectLoop", u)

too_many_redirects(u) == ErrorValue("TooManyRedirects", u)

----------------------------------------------------------------------------
(* client.rs: the status classification of the send loop *)

RedirectStatuses == {301, 302, 303, 307, 308}

Statuses == RedirectStatuses \cup {200}

\* body::can_reset: a buffered body can be sent again, a streaming one cannot.
can_reset(b) == b = "Buf"

\* should_redirect with 308 (PermanentRedirect) left out of the match.
ShouldRedirectNo308(status, b) ==
    IF status \in {301, 302, 303} THEN TRUE
    ELSE IF status = 307 THEN (IF b # "None" THEN can_reset(b) ELSE TRUE)
    ELSE FALSE

\* should_redirect without the can_reset test of 307/308.
ShouldRedirectAnyBody(status, b) == status \in {301, 302, 303, 307, 308}

\* should_redirect of the send loop
ShouldRedirect(status, b) ==
    IF status \in {301, 302, 303} THEN TRUE
    ELSE IF status \in {307, 308} THEN (IF b # "None" THEN can_reset(b) ELSE TRUE)
    ELSE FALSE

\* A body dropped on every redirect status.
BodyDroppedOnRedirect(status, b) == IF status \in RedirectStatuses THEN "None" ELSE b

\* body after the status match: 301/302/303 drop it
BodyAfterStatus(status, b) == IF status \in {301, 302, 303} THEN "None" ELSE b

\* The method rewrite with only GET exempt.
MethodAfterStatusHeadToGet(status, m) ==
    IF status \in {301, 302, 303} /\ m # "Get" THEN "Get" ELSE m

\* method after the status match: 301/302/303 rewrite all but GET and HEAD
MethodAfterStatus(status, m) ==
    IF status \in {301, 302, 303} /\ m \notin {"Get", "Head"} THEN "Get" ELSE m

\* Referer set only when the request has none yet.
SetRefererIfAbsent(hs, u) ==
    IF Has(hs, "Referer") THEN hs ELSE [hs EXCEPT !["Referer"] = UrlToString(u)]

\* A Referer update that also removes the credentials.
SetRefererStripAuth(hs, u) ==
    [hs EXCEPT !["Referer"] = UrlToString(u), !["Authorization"] = NoHeader]

\* headers.set(Referer(url.to_string()))
SetReferer(hs, u) == [hs EXCEPT !["Referer"] = UrlToString(u)]

\* A history the current URL is not added to before the policy is asked.
PushUrlLate(us, u) == us

\* urls.push(url)
PushUrl(us, u) == Append(us, u)

\* The match on the action with the two error arms exchanged.
ActionResultSwapped(action, r, gzip) ==
    CASE action = "Follow" -> NoResult
      [] action = "Stop" -> ResponseNew(r, gzip)
      [] action = "LoopDetected" -> too_many_redirects(r.url)
      [] action = "TooManyRedirects" -> loop_detected(r.url)

\* The match on the policy's action: what send returns, if it returns.
ActionResult(action, r, gzip) ==
    CASE action = "Follow" -> NoResult
      [] action = "Stop" -> ResponseNew(r, gzip)
      [] action = "LoopDetected" -> loop_detected(r.url)
      [] action = "TooManyRedirects" -> too_many_redirects(r.url)

----------------------------------------------------------------------------
(* The transport and the server behind it *)

SentUrls == Range(sent)

\* How often this send requested a URL it had requested before.
Revisits == Cardinality({i \in 1..Len(sent) : \E j \in 1..(i - 1) : sent[j] = sent[i]})

\* The first URL of the universe not requested yet.
FreshUrl == LET k == CHOOSE k \in 1..NumUrls :
                        /\ U(k) \notin SentUrls
                        /\ \A j \in 1..(k - 1) : U(j) \in SentUrls
            IN U(k)

\* The URLs a response may point to: one not requested yet, or any URL
\* requested so far.
Targets == {FreshUrl} \cup SentUrls

\* The same, with the number of revisits of one send bounded.
BoundedTargets == {FreshUrl} \cup (IF Revisits < MaxRevisits THEN SentUrls ELSE {})

\* The Location headers that resolve to target t from the current URL.
LocationsTo(t) == {AbsLocation(t)} \cup (IF t.host = url.host THEN {RelLocation(t.path)} ELSE {})

\* The Location headers a response of this status may carry; only a redirect
\* status comes with one.
Locations(status, targets) ==
    IF status \in RedirectStatuses
    THEN {NoLocation, BadLocation} \cup UNION {LocationsTo(t) : t \in targets}
    ELSE {NoLocation}

----------------------------------------------------------------------------
(* ClientRef.hyper: RwLock<hyper::Client>. The lock is std::sync::RwLock:
   any number of readers or one writer. *)

\* The threads that call Client::timeout on clones of the client.
Writers == {"t1", "t2"}
\* The Durations they pass (seconds); 0 stands for no timeout.
Durations == {5, 30}
NoThread == ""
NoCall == [pc |-> "Idle", timeout |-> 0]

\* new_hyper_client(): nobody holds the lock, no timeouts are set
NewHyperClient ==
    [readers |-> {}, writer |-> NoThread, read_timeout |-> 0, write_timeout |-> 0]

\* hyper.read() returns when no writer holds the lock
CanRead(l) == l.writer = NoThread

\* A write lock granted although readers hold the lock.
CanWriteAmongReaders(l) == l.writer = NoThread

\* hyper.write() returns when nobody holds the lock
CanWrite(l) == l.writer = NoThread /\ l.readers = {}

\* A handle copied out under the lock, the guard dropped before the call.
ReadLockSnapshot(l, t) == l

\* let c = client.hyper.read().unwrap(): t holds a read guard
ReadLock(l, t) == [l EXCEPT !.readers = @ \cup {t}]

\* the guard c goes out of scope
ReadUnlock(l, t) == [l EXCEPT !.readers = @ \ {t}]

----------------------------------------------------------------------------
(* State after Client::new() *)

Init ==
    /\ redirect_policy = DefaultPolicy
    /\ auto_ungzip = TRUE
    /\ builder = NoBuilder
    /\ method = ""
    /\ url = NoUrl
    /\ headers = EmptyHeaders
    /\ body = "None"
    /\ urls = <<>>
    /\ pc = "Idle"
    /\ sent = <<>>
    /\ req = NoReq
    /\ res = NoRes
    /\ decision = NoDecision
    /\ result = NoResult
    /\ hyper = NewHyperClient
    /\ timeouts = [t \in Writers |-> NoCall]
    /\ peer = "Idle"

sendVars == <<method, url, headers, body, urls, sent, req, res, decision, result>>

handleVars == <<hyper, timeouts, peer>>

----------------------------------------------------------------------------
(* Client *)

\* Client::gzip
ClientGzip(enable) ==
    /\ auto_ungzip' = enable
    /\ UNCHANGED <<redirect_policy, builder, pc, sendVars, handleVars>>

\* Client::redirect
ClientRedirect(policy) ==
    /\ redirect_policy' = policy
    /\ UNCHANGED <<auto_ungzip, builder, pc, sendVars, handleVars>>

\* Client::request (and get, post, put, head through it)
ClientRequest(m, u) ==
    /\ pc = "Idle"
    /\ builder' = [method |-> m, url |-> u, headers |-> EmptyHeaders, body |-> "None"]
    /\ pc' = "Building"
    /\ UNCHANGED <<redirect_policy, auto_ungzip, sendVars, handleVars>>

\* What IntoUrl gives for the caller's argument: a URL or a parse error.
IntoUrls == {[ok |-> TRUE, url |-> U(1)], [ok |-> FALSE, url |-> NoUrl]}

----------------------------------------------------------------------------
(* RequestBuilder *)

\* RequestBuilder::header
Header(h) ==
    /\ pc = "Building"
    /\ builder' = [builder EXCEPT !.headers[h] = Str("caller")]
    /\ UNCHANGED <<redirect_policy, auto_ungzip, pc, sendVars, handleVars>>

\* RequestBuilder::headers
Headers(hs) ==
    /\ pc = "Building"
    /\ builder' = [builder EXCEPT !.headers =
                      [h \in HeaderNames |-> IF h \in hs THEN Str("caller") ELSE @[h]]]
    /\ UNCHANGED <<redirect_policy, auto_ungzip, pc, sendVars, handleVars>>

\* RequestBuilder::body
Body(b) ==
    /\ pc = "Building"
    /\ builder' = [builder EXCEPT !.body = b]
    /\ UNCHANGED <<redirect_policy, auto_ungzip, pc, sendVars, handleVars>>

\* RequestBuilder::form; encoded tells whether serde_urlencoded succeeded
Form(encoded) ==
    /\ pc = "Building"
    /\ builder' = [builder EXCEPT
                      !.headers["ContentType"] = Str("application/x-www-form-urlencoded"),
                      !.body = IF encoded THEN "Buf" ELSE "Err"]
    /\ UNCHANGED <<redirect_policy, auto_ungzip, pc, sendVars, handleVars>>

\* RequestBuilder::json
Json ==
    /\ pc = "Building"
    /\ builder' = [builder EXCEPT
                      !.headers["ContentType"] = Str("application/json"),
                      !.body = "Buf"]
    /\ UNCHANGED <<redirect_policy, auto_ungzip, pc, sendVars, handleVars>>

\* Defaults that ask for gzip without looking for a Range header.
DefaultHeadersIgnoreRange(hs, gzip) ==
    LET h1 == IF ~Has(hs, "UserAgent")
              THEN [hs EXCEPT !["UserAgent"] = Str("reqwest/version")] ELSE hs
        h2 == IF ~Has(h1, "Accept") THEN [h1 EXCEPT !["Accept"] = Str("*/*")] ELSE h1
    IN IF gzip /\ ~Has(h2, "AcceptEncoding")
       THEN [h2 EXCEPT !["AcceptEncoding"] = Str("gzip")] ELSE h2

\* The defaults send adds to the builder's headers.
DefaultHeaders(hs, gzip) ==
    LET h1 == IF ~Has(hs, "UserAgent")
              THEN [hs EXCEPT !["UserAgent"] = Str("reqwest/version")] ELSE hs
        h2 == IF ~Has(h1, "Accept") THEN [h1 EXCEPT !["Accept"] = Str("*/*")] ELSE h1
    IN IF gzip /\ ~Has(h2, "AcceptEncoding") /\ ~Has(h2, "Range")
       THEN [h2 EXCEPT !["AcceptEncoding"] = Str("gzip")] ELSE h2

\* A send that looks at the body's error before the URL's.
SendBodyFirst ==
    /\ pc = "Building"
    /\ headers' = DefaultHeaders(builder.headers, auto_ungzip)
    /\ method' = builder.method
    /\ IF builder.body = "Err"
       THEN /\ result' = ErrorValue("UrlEncoded", NoUrl)
            /\ pc' = "Done"
            /\ UNCHANGED <<url, body>>
       ELSE /\ body' = builder.body
            /\ IF ~builder.url.ok
               THEN /\ result' = ErrorValue("Http", NoUrl)
                    /\ pc' = "Done"
                    /\ UNCHANGED url
               ELSE /\ url' = builder.url.url
                    /\ pc' = "Sending"
                    /\ UNCHANGED result
    /\ urls' = <<>>
    /\ UNCHANGED <<redirect_policy, auto_ungzip, builder, sent, req, res, decision,
                   handleVars>>

\* RequestBuilder::send up to the loop
Send ==
    /\ pc = "Building"
    /\ headers' = DefaultHeaders(builder.headers, auto_ungzip)
    /\ method' = builder.method
    /\ IF ~builder.url.ok
       THEN /\ result' = ErrorValue("Http", NoUrl)
            /\ pc' = "Done"
            /\ UNCHANGED <<url, body>>
       ELSE /\ url' = builder.url.url
            /\ IF builder.body = "Err"
               THEN /\ result' = ErrorValue("UrlEncoded", NoUrl)
                    /\ pc' = "Done"
                    /\ UNCHANGED body
               ELSE /\ body' = builder.body
                    /\ pc' = "Sending"
                    /\ UNCHANGED result
    /\ urls' = <<>>
    /\ UNCHANGED <<redirect_policy, auto_ungzip, builder, sent, req, res, decision,
                   handleVars>>

\* The loop of send: the read guard on the transport handle is taken and the
\* request of one hop goes to the transport
Request(cap) ==
    /\ pc = "Sending"
    /\ Len(sent) < cap
    /\ CanRead(hyper)
    /\ req' = [method |-> method, url |-> url, headers |-> headers, body |-> body]
    /\ sent' = Append(sent, url)
    /\ pc' = "InFlight"
    /\ hyper' = ReadLock(hyper, "send")
    /\ UNCHANGED <<redirect_policy, auto_ungzip, builder, method, url, headers, body,
                   urls, res, decision, result, timeouts, peer>>

\* req.send() failed, reported with the URL the builder was created with.
TransportErrorInitialUrl ==
    /\ pc = "InFlight"
    /\ result' = ErrorValue("Http", builder.url.url)
    /\ pc' = "Done"
    /\ hyper' = ReadUnlock(hyper, "send")
    /\ UNCHANGED <<redirect_policy, auto_ungzip, builder, method, url, headers, body,
                   urls, sent, req, res, decision, timeouts, peer>>

\* The loop of send: req.send() failed; the return drops the read guard
TransportError ==
    /\ pc = "InFlight"
    /\ result' = ErrorValue("Http", url)
    /\ pc' = "Done"
    /\ hyper' = ReadUnlock(hyper, "send")
    /\ UNCHANGED <<redirect_policy, auto_ungzip, builder, method, url, headers, body,
                   urls, sent, req, res, decision, timeouts, peer>>

\* The loop of send: req.send() returned a response with this status and
\* Location header; the rest of the iteration. The response reports the URL
\* requested: Client::new turns hyper's own redirect following off.
Response(status, location) ==
    /\ pc = "InFlight"
    /\ LET r == [status |-> status, url |-> url, hop |-> Len(sent), location |-> location]
           loc == Join(url, location)
           final == ResponseNew(r, auto_ungzip)
       IN /\ res' = r
          /\ body' = BodyAfterStatus(status, body)
          /\ method' = MethodAfterStatus(status, method)
          /\ IF ShouldRedirect(status, body) /\ location # NoLocation /\ loc.ok
             THEN /\ headers' = SetReferer(headers, url)
                  /\ urls' = PushUrl(urls, url)
                  /\ decision' = check_redirect(redirect_policy, loc.url, urls')
                  /\ IF decision'.action = "Follow"
                     THEN /\ url' = loc.url
                          /\ pc' = "Sending"
                          /\ UNCHANGED result
                     ELSE /\ result' = ActionResult(decision'.action, r, auto_ungzip)
                          /\ pc' = "Done"
                          /\ UNCHANGED url
             ELSE /\ result' = final
                  /\ pc' = "Done"
                  /\ UNCHANGED <<url, headers, urls, decision>>
    /\ hyper' = ReadUnlock(hyper, "send")
    /\ UNCHANGED <<redirect_policy, auto_ungzip, builder, sent, req, timeouts, peer>>

----------------------------------------------------------------------------
(* Client::timeout, called by other threads on clones of the client *)

\* Client::timeout: self.inner.hyper.write() returned the write guard
ClientTimeoutWrite(t, d) ==
    /\ timeouts[t].pc = "Idle"
    /\ CanWrite(hyper)
    /\ hyper' = [hyper EXCEPT !.writer = t]
    /\ timeouts' = [timeouts EXCEPT ![t] = [pc |-> "Locked", timeout |-> d]]
    /\ UNCHANGED <<redirect_policy, auto_ungzip, builder, pc, sendVars, peer>>

\* Client::timeout: client.set_read_timeout(Some(timeout))
ClientTimeoutSetRead(t) ==
    /\ timeouts[t].pc = "Locked"
    /\ hyper' = [hyper EXCEPT !.read_timeout = timeouts[t].timeout]
    /\ timeouts' = [timeouts EXCEPT ![t].pc = "ReadSet"]
    /\ UNCHANGED <<redirect_policy, auto_ungzip, builder, pc, sendVars, peer>>

\* Client::timeout: client.set_write_timeout(Some(timeout)); the write guard
\* is dropped on return
ClientTimeoutSetWrite(t) ==
    /\ timeouts[t].pc = "ReadSet"
    /\ hyper' = [hyper EXCEPT !.write_timeout = timeouts[t].timeout,
                              !.writer = NoThread]
    /\ timeouts' = [timeouts EXCEPT ![t] = NoCall]
    /\ UNCHANGED <<redirect_policy, auto_ungzip, builder, pc, sendVars, peer>>

----------------------------------------------------------------------------
(* A second RequestBuilder::send, on a clone of the client, followed only in
   its use of the transport handle *)

\* send is called
PeerSend ==
    /\ peer = "Idle"
    /\ peer' = "Sending"
    /\ UNCHANGED <<redirect_policy, auto_ungzip, builder, pc, sendVars, hyper, timeouts>>

\* the loop of send: the read guard is taken and the request goes out
PeerRequest ==
    /\ peer = "Sending"
    /\ CanRead(hyper)
    /\ hyper' = ReadLock(hyper, "peer")
    /\ peer' = "InFlight"
    /\ UNCHANGED <<redirect_policy, auto_ungzip, builder, pc, sendVars, timeouts>>

\* the loop of send: req.send() returned, the guard is dropped, and the
\* iteration either follows a redirect or returns
PeerResponse(follow) ==
    /\ peer = "InFlight"
    /\ hyper' = ReadUnlock(hyper, "peer")
    /\ peer' = IF follow THEN "Sending" ELSE "Idle"
    /\ UNCHANGED <<redirect_policy, auto_ungzip, builder, pc, sendVars, timeouts>>

----------------------------------------------------------------------------
(* The sequential program: the client is configured, a request is built and
   sent. *)

ConfigureGzip ==
    /\ pc \in {"Idle", "Building"}
    /\ \E enable \in BOOLEAN : ClientGzip(enable)

ConfigurePolicy(policies) ==
    /\ pc \in {"Idle", "Building"}
    /\ \E policy \in policies : ClientRedirect(policy)

Build(names) ==
    \/ \E m \in Methods, u \in IntoUrls : ClientRequest(m, u)
    \/ \E h \in names : Header(h)
    \/ \E hs \in SUBSET names : hs # {} /\ Headers(hs)
    \/ \E b \in {"Buf", "Stream"} : Body(b)
    \/ \E encoded \in BOOLEAN : Form(encoded)
    \/ Json

\* A send under a built-in policy.
Loop ==
    \/ Request(MaxHops)
    \/ TransportError
    \/ \E status \in Statuses : \E location \in Locations(status, Targets) :
          Response(status, location)

Next == ConfigureGzip \/ ConfigurePolicy(BuiltinPolicies) \/ Build(CallerHeaderNames) \/ Send \/ Loop

Spec == Init /\ [][Next]_vars

\* A send under a caller-supplied policy (or the default one).
CustomLoop ==
    \/ Request(MaxCustomHops)
    \/ TransportError
    \/ \E status \in Statuses : \E location \in Locations(status, BoundedTargets) :
          Response(status, location)

CustomNext == ConfigurePolicy(CustomPolicies) \/ Build({"Referer"}) \/ Send \/ CustomLoop

CustomSpec == Init /\ [][CustomNext]_vars

----------------------------------------------------------------------------
(* A send whose caller set any of the headers send has defaults for, while
   another thread switches gzip on and off. *)

DefaultedNames == {"UserAgent", "Accept", "AcceptEncoding", "Range"}

HeaderLoop ==
    \/ Request(MaxHeaderHops)
    \/ TransportError
    \/ \E status \in Statuses : \E location \in Locations(status, Targets) :
          Response(status, location)

HeaderNext ==
    \/ \E enable \in BOOLEAN : ClientGzip(enable)
    \/ \E u \in IntoUrls : ClientRequest("Get", u)
    \/ \E h \in DefaultedNames : Header(h)
    \/ \E hs \in SUBSET DefaultedNames : hs # {} /\ Headers(hs)
    \/ Send
    \/ HeaderLoop

HeaderSpec == Init /\ [][HeaderNext]_vars

----------------------------------------------------------------------------
(* A send during which another thread replaces the redirect policy. *)

ReconfigureLoop ==
    \/ Request(MaxReconfigureHops)
    \/ TransportError
    \/ \E status \in Statuses : \E location \in Locations(status, Targets) :
          Response(status, location)

ReconfigureNext ==
    \/ \E policy \in BuiltinPolicies : ClientRedirect(policy)
    \/ \E m \in Methods, u \in IntoUrls : ClientRequest(m, u)
    \/ \E b \in {"Buf", "Stream"} : Body(b)
    \/ Send
    \/ ReconfigureLoop

ReconfigureSpec == Init /\ [][ReconfigureNext]_vars

----------------------------------------------------------------------------
(* Two sends and two callers of Client::timeout on clones of one client. *)

LockLoop ==
    \/ Request(MaxLockHops)
    \/ TransportError
    \/ \E status \in Statuses : \E location \in Locations(status, Targets) :
          Response(status, location)

Timeout ==
    \/ \E t \in Writers, d \in Durations : ClientTimeoutWrite(t, d)
    \/ \E t \in Writers : ClientTimeoutSetRead(t)
    \/ \E t \in Writers : ClientTimeoutSetWrite(t)

Peer ==
    \/ PeerSend
    \/ PeerRequest
    \/ \E follow \in BOOLEAN : PeerResponse(follow)

LockNext ==
    \/ \E u \in IntoUrls : ClientRequest("Get", u)
    \/ Send
    \/ LockLoop
    \/ Timeout
    \/ Peer

LockSpec == Init /\ [][LockNext]_vars

----------------------------------------------------------------------------
(* A send whose thread keeps running and whose transport calls all return. *)

FairNext ==
    \/ ConfigurePolicy(BuiltinPolicies)
    \/ \E m \in Methods, u \in IntoUrls : ClientRequest(m, u)
    \/ \E b \in {"Buf", "Stream"} : Body(b)
    \/ Send
    \/ Loop

FairSpec == Init /\ [][FairNext]_vars /\ WF_vars(Loop)

----------------------------------------------------------------------------
(* The policy decision on its own: any policy, applied to any candidate and
   history over a few URLs. *)

PureUrls == {U(1), U(3), U(7)}

RECURSIVE SeqsUpTo(_, _)
SeqsUpTo(S, n) ==
    IF n = 0 THEN {<<>>}
    ELSE LET shorter == SeqsUpTo(S, n - 1)
         IN shorter \cup {Append(q, x) : q \in {t \in shorter : Len(t) = n - 1}, x \in S}

Histories == SeqsUpTo(PureUrls, MaxHist)

\* check_redirect called with the client's policy
CheckRedirect(next, previous) ==
    /\ decision' = check_redirect(redirect_policy, next, previous)
    /\ UNCHANGED <<redirect_policy, auto_ungzip, builder, method, url, headers, body,
                   urls, pc, sent, req, res, result, handleVars>>

PolicyNext ==
    \/ \E policy \in BuiltinPolicies \cup CustomPolicies : ClientRedirect(policy)
    \/ \E next \in PureUrls, previous \in Histories : CheckRedirect(next, previous)

PolicySpec == Init /\ [][PolicyNext]_vars

----------------------------------------------------------------------------
(* Properties *)

\* The response to the latest request has arrived.
Answered == res.hop >= 1 /\ res.hop = Len(sent)

\* The Location of the last response resolves against the URL it came from.
Resolvable == res.location # NoLocation /\ Join(res.url, res.location).ok

Candidate == Join(res.url, res.location).url

\* C1: under Limit(max), a history of length exactly max gets
\* TooManyRedirects, whether or not the candidate is in the history.
C1_LimitReached ==
    (decision.policy.kind = "Limit" /\ Len(decision.previous) = decision.policy.max)
        => decision.action = "TooManyRedirects"

C1_Witness ==
    /\ decision.policy.kind = "Limit"
    /\ decision.policy.max > 0
    /\ Len(decision.previous) = decision.policy.max
    /\ decision.next \in Range(decision.previous)
    /\ decision.action = "TooManyRedirects"

\* C2: under Limit(n), a history shorter than n gets LoopDetected when it
\* contains the candidate and Follow when it does not.
C2_BelowLimit ==
    (decision.policy.kind = "Limit" /\ Len(decision.previous) < decision.policy.max)
        => decision.action = (IF \E i \in 1..Len(decision.previous) :
                                     decision.previous[i] = decision.next
                              THEN "LoopDetected" ELSE "Follow")

C2_Witness ==
    /\ decision.policy.kind = "Limit"
    /\ Len(decision.previous) = 3
    /\ Len(decision.previous) < decision.policy.max
    /\ decision.previous[1] = decision.next
    /\ decision.previous[3] # decision.next
    /\ decision.action = "LoopDetected"

\* C3: under Policy::None every decision is Stop; a send whose first response
\* is a redirect with a resolvable Location makes one transport call and
\* returns that response as Ok.
C3_NoneStops ==
    redirect_policy.kind = "None" =>
        /\ decision # NoDecision => decision.action = "Stop"
        /\ Len(sent) <= 1
        /\ (Answered /\ res.status \in RedirectStatuses /\ Resolvable)
              => /\ pc = "Done"
                 /\ result.kind = "Ok"
                 /\ result.res = res
                 /\ res.hop = 1

C3_Witness ==
    /\ redirect_policy.kind = "None"
    /\ pc = "Done"
    /\ Answered /\ res.status = 302 /\ Resolvable
    /\ decision.policy.kind = "None" /\ decision.action = "Stop"
    /\ result.kind = "Ok" /\ result.res = res

\* C4: a request that follows a 301, 302 or 303 response has no body, and
\* its method is GET unless the request before it was GET or HEAD, whose
\* method it keeps.
C4_MethodRewrite ==
    [][(pc = "Sending" /\ pc' = "InFlight" /\ res.status \in {301, 302, 303})
         => /\ req'.body = "None"
            /\ req'.method = (IF req.method \in {"Get", "Head"} THEN req.method ELSE "Get")]_vars

C4_Witness ==
    /\ pc = "InFlight" /\ Len(sent) = 2
    /\ res.status = 303 /\ res.hop = 1
    /\ builder.method = "Post" /\ builder.body = "Buf"
    /\ req.method = "Get" /\ req.body = "None"

\* C5: a 307 or 308 response to a request whose body cannot be reset ends
\* the send with Ok(that response): the policy is not consulted, nothing is
\* pushed to the history and no further request is made.
C5_NoResetStops ==
    (Answered /\ res.status \in {307, 308} /\ req.body # "None" /\ ~can_reset(req.body))
        => /\ pc = "Done"
           /\ result.kind = "Ok"
           /\ result.res = res
           /\ Len(decision.previous) < res.hop
           /\ Len(urls) < res.hop

C5_Witness ==
    /\ pc = "Done" /\ Answered
    /\ res.status = 307 /\ Resolvable
    /\ req.body = "Stream" /\ req.method = "Post"
    /\ result.kind = "Ok" /\ result.res = res

\* The last response asks for a redirect the loop goes on to evaluate: a
\* 301, 302 or 303, or a 307 or 308 to a request with no body or with one
\* that can be sent again.
Redirecting ==
    /\ res.status \in RedirectStatuses
    /\ res.status \in {301, 302, 303} \/ req.body = "None" \/ can_reset(req.body)

\* C6: under the default Limit(10), with every response a redirect to a URL
\* not visited yet, the first ten decisions are Follow and the eleventh is
\* TooManyRedirects, returned as an error with the URL of the eleventh
\* response.
C6_ElevenRedirects ==
    redirect_policy = DefaultPolicy =>
        /\ (/\ decision.policy = DefaultPolicy
            /\ Len(decision.previous) \in 1..DefaultLimit
            /\ decision.next \notin Range(decision.previous))
              => decision.action = "Follow"
        /\ result.kind = "TooManyRedirects"
              => Len(sent) = DefaultLimit + 1 /\ result.url = sent[DefaultLimit + 1]

\* C7: under Limit(10), a redirect whose target was already visited, met
\* before the limit is reached, fails the send with RedirectLoop carrying the
\* URL of the response that issued the redirect.
C7_LoopBeforeLimit ==
    (/\ redirect_policy = DefaultPolicy
     /\ Answered /\ res.hop < DefaultLimit
     /\ Redirecting /\ Resolvable
     /\ Candidate \in Range(sent))
        => /\ pc = "Done"
           /\ result.kind = "RedirectLoop"
           /\ result.url = sent[res.hop]
           /\ result.url = res.url

C7_Witness ==
    /\ redirect_policy = DefaultPolicy
    /\ pc = "Done" /\ Len(sent) = 4 /\ Answered
    /\ Redirecting /\ Resolvable
    /\ Candidate = sent[2]
    /\ result.kind = "RedirectLoop"
    /\ result.url = sent[4] /\ result.url # Candidate

\* C8: every request after the first carries as Referer the string form of
\* the URL of the hop before it, the first carries what the caller set, and
\* an Ok result is the response of the last request made.
C8_Referer ==
    /\ Len(sent) = 1 => req.headers["Referer"] = builder.headers["Referer"]
    /\ Len(sent) >= 2 => req.headers["Referer"] = UrlToString(sent[Len(sent) - 1])
    /\ Len(sent) >= 1 => req.url = sent[Len(sent)]
    /\ result.kind = "Ok" => /\ result.res = res
                             /\ res.hop = Len(sent)
                             /\ res.url = sent[Len(sent)]

C8_Witness ==
    /\ pc = "Done" /\ result.kind = "Ok"
    /\ sent = <<U(1), U(2)>>
    /\ res.status = 200 /\ res.url = U(2)
    /\ builder.method = "Get"
    /\ builder.headers["Referer"] = Str("caller")
    /\ req.headers["Referer"] = UrlToString(U(1))

\* C9: under a custom policy that always follows, each request after the
\* first goes to the target the response before it named, and the send ends
\* (short of a transport failure) only with Ok of a response that is not a
\* redirect, has no usable Location, or answers a body that cannot be reset.
C9_FollowAllChain ==
    redirect_policy = PolicyCustom("FollowAll") =>
        /\ (pc = "InFlight" /\ Len(sent) >= 2)
              => /\ res.hop = Len(sent) - 1
                 /\ Resolvable
                 /\ sent[Len(sent)] = Candidate
                 /\ urls = SubSeq(sent, 1, Len(sent) - 1)
        /\ (pc = "Done" /\ Len(sent) >= 1 /\ result.kind # "Http")
              => /\ Answered
                 /\ result.kind = "Ok"
                 /\ result.res = res
                 /\ ~(Redirecting /\ Resolvable)

C9_Witness ==
    /\ redirect_policy = PolicyCustom("FollowAll")
    /\ pc = "Done" /\ result.kind = "Ok"
    /\ sent = <<U(1), U(2), U(3), U(4)>>
    /\ res.status = 200 /\ res.hop = 4
    /\ builder.body = "Buf"

\* C10: under a custom policy a send ends with RedirectLoop or
\* TooManyRedirects only when the predicate returned that action for the
\* decision of that hop; with the predicate that always follows, a redirect
\* to an already visited URL is followed like any other.
C10_CustomDecides ==
    [][(redirect_policy.kind = "Custom" /\ pc = "InFlight" /\ pc' # "InFlight")
         => /\ result'.kind \in {"RedirectLoop", "TooManyRedirects"}
                 => /\ Len(decision'.previous) = Len(sent)
                    /\ CustomPolicy(redirect_policy.f, decision'.next, decision'.previous)
                          = (IF result'.kind = "RedirectLoop"
                             THEN "LoopDetected" ELSE "TooManyRedirects")
            /\ (/\ redirect_policy = PolicyCustom("FollowAll")
                /\ res'.hop = Len(sent)
                /\ Redirecting' /\ Resolvable')
                 => pc' = "Sending" /\ url' = Candidate']_vars

C10_Witness ==
    /\ redirect_policy = PolicyCustom("FollowAll")
    /\ pc = "InFlight"
    /\ sent = <<U(1), U(2), U(1)>>

\* C11: a send under Limit(max) never follows more than max redirects, and
\* under Limit(0) the first redirect decision is TooManyRedirects, so that no
\* redirect is followed at all.
C11_LimitNeverExceeded ==
    redirect_policy.kind = "Limit" =>
        /\ Len(sent) >= 1 => Len(sent) - 1 <= redirect_policy.max
        /\ (redirect_policy.max = 0 /\ decision # NoDecision)
              => decision.action = "TooManyRedirects"

\* C12: a redirect response the loop goes on to evaluate that has no
\* Location header, or one that does not parse or join, ends the send with
\* Ok(that response): the policy is not asked about this hop, the history
\* and the Referer stay as they were for the request, and no further request
\* is made.
C12_NoUsableLocation ==
    (Answered /\ Redirecting /\ res.location.kind \in {"None", "Bad"})
        => /\ pc = "Done"
           /\ result.kind = "Ok"
           /\ result.res = res
           /\ Len(decision.previous) < res.hop
           /\ urls = SubSeq(sent, 1, res.hop - 1)
           /\ headers["Referer"] = req.headers["Referer"]

C12_Witness ==
    /\ pc = "Done" /\ Answered /\ Len(sent) = 3
    /\ res.status = 307 /\ req.body = "Buf"
    /\ res.location = BadLocation
    /\ redirect_policy.kind = "Limit"
    /\ decision.action = "Follow" /\ Len(decision.previous) = 2
    /\ result.kind = "Ok" /\ result.res = res

\* C13: when the transport call of a hop ends without a response, the send
\* ends at once with an error of the transport kind that carries the URL
\* requested on that hop; the policy is not consulted, the history is not
\* touched, and no further request (no retry) is made once the error is
\* returned.
C13_TransportFailure ==
    [][/\ (pc = "InFlight" /\ res'.hop # Len(sent))
            => /\ pc' = "Done"
               /\ result'.kind = "Http"
               /\ result'.url = sent[Len(sent)]
               /\ result'.url = req.url
               /\ sent' = sent /\ decision' = decision /\ urls' = urls
       /\ (result.kind = "Http" /\ Len(sent) >= 1)
            => (pc' = "Done" /\ sent' = sent /\ result' = result /\ decision' = decision)]_vars

C13_Witness ==
    /\ pc = "Done" /\ result.kind = "Http"
    /\ sent = <<U(1), U(2), U(3)>>
    /\ result.url = U(3)
    /\ res.hop = 2 /\ Candidate = U(3)
    /\ Len(decision.previous) = 2

\* The outcome of a send whose builder holds a failure: the URL's error
\* first, then the body's, neither with a URL attached, and before any
\* request is made.
DeferredErrorReturned ==
    pc \notin {"Idle", "Building"} =>
        /\ ~builder.url.ok
              => pc = "Done" /\ result = ErrorValue("Http", NoUrl) /\ sent = <<>>
        /\ (builder.url.ok /\ builder.body = "Err")
              => pc = "Done" /\ result = ErrorValue("UrlEncoded", NoUrl) /\ sent = <<>>

\* C14 as stated: a builder made from an unparseable URL, or one whose
\* form() encoding failed, keeps that failure through every further builder
\* call, and send returns it (the URL's error first, no URL attached) before
\* any request is made.
C14_DeferredAlways ==
    /\ []DeferredErrorReturned
    /\ [][(pc = "Building" /\ pc' = "Building")
             => /\ ~builder.url.ok => ~builder'.url.ok
                /\ builder.body = "Err" => builder'.body = "Err"]_vars

\* C14, amended: while a request is built nothing is raised and every
\* builder call and send stay available, whatever failure the builder holds;
\* send returns the failure the builder holds when it is called: the URL's
\* error if the URL did not parse, else the encoding error if the body slot
\* still holds a failed form() (a later body(), form() or json() replaces
\* it), with no URL attached and before any request is made.
C14_Deferred ==
    /\ pc = "Building"
          => /\ result = NoResult /\ sent = <<>>
             /\ ENABLED Header("Authorization")
             /\ ENABLED Body("Stream")
             /\ ENABLED Form(TRUE)
             /\ ENABLED Json
             /\ ENABLED Send
    /\ DeferredErrorReturned

C14_Witness ==
    /\ pc = "Done" /\ sent = <<>>
    /\ ~builder.url.ok /\ builder.body = "Err"
    /\ builder.headers["Authorization"] = Str("caller")
    /\ result = ErrorValue("Http", NoUrl)

\* C19: a request that follows a 307 or 308 response (the request before it
\* had no body, or one that can be sent again) has the method and the body
\* of the request before it, whatever the method.
C19_SameMethodAndBody ==
    [][(pc = "Sending" /\ pc' = "InFlight" /\ res.status \in {307, 308})
         => /\ req.body = "None" \/ can_reset(req.body)
            /\ req'.method = req.method
            /\ req'.body = req.body]_vars

C19_Witness ==
    /\ pc = "InFlight" /\ Len(sent) = 3
    /\ res.status = 308 /\ res.hop = 2
    /\ req.method = "Post" /\ req.body = "Buf"

\* C20: over the hops of one send only the Referer header changes: every
\* other header of the request as finalized before the first hop goes out
\* unchanged on every hop, to another origin as well, and after a 301, 302
\* or 303 has dropped the body.
C20_OnlyRefererChanges ==
    [][(pc = "Sending" \/ pc = "InFlight")
         => \A h \in HeaderNames \ {"Referer"} :
               /\ headers'[h] = headers[h]
               /\ (pc = "Sending" /\ pc' = "InFlight")
                     => /\ req'.headers[h] = headers[h]
                        /\ (Len(sent) >= 1 => req'.headers[h] = req.headers[h]) ]_vars

C20_Witness ==
    /\ pc = "InFlight" /\ sent = <<U(1), U(2), U(3)>>
    /\ HostOf(3) # HostOf(2)
    /\ res.status = 303 /\ res.hop = 2
    /\ builder.body = "Buf" /\ req.body = "None"
    /\ req.headers["Authorization"] = Str("caller")
    /\ req.headers["ContentType"] = Str("application/x-www-form-urlencoded")
    /\ req.headers["Referer"] = UrlToString(U(2))

\* C15: send settles the default headers once, before the first request:
\* User-Agent and Accept get their default only when the caller set none,
\* Accept-Encoding gets gzip only when the caller set neither it nor Range
\* and auto-decompression is on at that moment, and what the caller set is
\* kept. Later hops send these headers as settled, whatever the gzip flag
\* has become.
C15_DefaultsOnce ==
    [][/\ (pc = "Building" /\ pc' # "Building")
            => /\ sent = <<>> /\ sent' = <<>>
               /\ headers'["UserAgent"] =
                     (IF Has(builder.headers, "UserAgent")
                      THEN builder.headers["UserAgent"] ELSE Str("reqwest/version"))
               /\ headers'["Accept"] =
                     (IF Has(builder.headers, "Accept")
                      THEN builder.headers["Accept"] ELSE Str("*/*"))
               /\ headers'["AcceptEncoding"] =
                     (IF Has(builder.headers, "AcceptEncoding")
                      THEN builder.headers["AcceptEncoding"]
                      ELSE IF auto_ungzip /\ ~Has(builder.headers, "Range")
                           THEN Str("gzip") ELSE NoHeader)
               /\ \A h \in HeaderNames \ {"UserAgent", "Accept", "AcceptEncoding"} :
                     headers'[h] = builder.headers[h]
       /\ (pc = "Sending" \/ pc = "InFlight")
            => \A h \in DefaultedNames :
                  /\ headers'[h] = headers[h]
                  /\ (pc = "Sending" /\ pc' = "InFlight") => req'.headers[h] = headers[h]
      ]_vars

C15_Witness ==
    /\ pc = "InFlight" /\ Len(sent) = 2
    /\ auto_ungzip = FALSE
    /\ req.headers["AcceptEncoding"] = Str("gzip")
    /\ req.headers["UserAgent"] = Str("caller")
    /\ req.headers["Accept"] = Str("*/*")
    /\ ~Has(builder.headers, "Accept")

\* C17: every redirect decision is taken with the policy the client holds at
\* that moment: when Client::redirect replaces the policy between two hops of
\* a send, the decisions after it use the new policy; with the policy
\* replaced by None, the next response is the send's result.
C17_PolicyReadPerDecision ==
    [][/\ (pc = "InFlight" /\ decision' # decision)
            => /\ decision'.policy = redirect_policy
               /\ Len(decision'.previous) = Len(sent)
               /\ decision'.action =
                     redirect(redirect_policy, decision'.next, decision'.previous)
       /\ (pc = "InFlight" /\ res'.hop = Len(sent) /\ redirect_policy.kind = "None")
            => /\ pc' = "Done"
               /\ result'.kind = "Ok"
               /\ result'.res = res'
      ]_vars

C17_Witness ==
    /\ pc = "Done" /\ Len(sent) = 3 /\ Answered
    /\ Redirecting /\ Resolvable
    /\ redirect_policy = PolicyNone
    /\ decision.policy = PolicyNone /\ Len(decision.previous) = 3
    /\ decision.action = "Stop"
    /\ result.kind = "Ok" /\ result.res = res

\* C16 as stated: a send holds no lock of the client while its transport
\* call is in progress, so that a caller of Client::timeout can take the
\* write lock during the call.
C16_NoLockInFlight ==
    (pc = "InFlight" \/ peer = "InFlight")
        => /\ hyper.readers = {}
           /\ hyper.writer = NoThread => CanWrite(hyper)

\* C16, amended: a send holds the read lock on the transport handle exactly
\* while a transport call of its own is in progress, and holds it at no
\* other time; a call of Client::timeout cannot take the write lock while
\* any send's transport call is in progress, and can take it between two
\* hops when nobody else holds the lock.
C16_ReadLockInFlight ==
    /\ ("send" \in hyper.readers) <=> (pc = "InFlight")
    /\ ("peer" \in hyper.readers) <=> (peer = "InFlight")
    /\ \A t \in Writers, d \in Durations :
          /\ (pc = "InFlight" \/ peer = "InFlight") => ~ENABLED ClientTimeoutWrite(t, d)
          /\ (/\ pc # "InFlight" /\ peer # "InFlight"
              /\ \A w \in Writers : timeouts[w].pc = "Idle")
                => ENABLED ClientTimeoutWrite(t, d)

C16_Witness ==
    /\ pc = "InFlight" /\ Len(sent) = 2
    /\ peer = "Sending"
    /\ hyper.readers = {"send"}
    /\ hyper.read_timeout = 5 /\ hyper.write_timeout = 5
    /\ \A t \in Writers : timeouts[t].pc = "Idle" /\ ~ENABLED ClientTimeoutWrite(t, 30)

\* C18: the transport handle is used under a read/write lock: sends issue
\* their transport calls side by side, at most one Client::timeout update is
\* under way at a time, and none while any send is using the handle, so
\* that no request goes out with only one of the two timeouts updated.
C18_LockDiscipline ==
    /\ Cardinality({t \in Writers : timeouts[t].pc # "Idle"}) <= 1
    /\ \A t \in Writers : (timeouts[t].pc # "Idle") <=> (hyper.writer = t)
    /\ hyper.writer # NoThread
          => pc # "InFlight" /\ peer # "InFlight" /\ hyper.readers = {}
    /\ (pc = "InFlight" \/ peer = "InFlight")
          => hyper.read_timeout = hyper.write_timeout
    /\ (peer = "InFlight" /\ pc = "Sending" /\ Len(sent) < MaxLockHops)
          => ENABLED Request(MaxLockHops)
    /\ (pc = "InFlight" /\ peer = "Sending") => ENABLED PeerRequest

C18_Witness ==
    /\ pc = "InFlight" /\ peer = "InFlight"
    /\ hyper.readers = {"send", "peer"}
    /\ hyper.read_timeout = 30 /\ hyper.write_timeout = 30
    /\ Len(sent) = 2

\* C21: within one send the history only grows, by appending; whenever the
\* policy is consulted the history is not empty: it is the list of the URLs
\* requested so far in this send, in order, and its last element is the URL
\* of the response under evaluation.
C21_HistoryAtDecision ==
    [][/\ (pc = "Sending" \/ pc = "InFlight")
            => \/ urls' = urls
               \/ \E u \in Range(sent) : urls' = Append(urls, u)
       /\ (pc = "InFlight" /\ decision' # decision)
            => /\ decision'.previous = urls'
               /\ Len(decision'.previous) >= 1
               /\ Len(decision'.previous) = Len(sent)
               /\ decision'.previous = sent
               /\ decision'.previous[Len(decision'.previous)] = res'.url
               /\ res'.hop = Len(sent)
      ]_vars

C21_Witness ==
    /\ pc = "Sending"
    /\ sent = <<U(1), U(2), U(3)>>
    /\ decision.previous = sent /\ urls = sent
    /\ decision.action = "Follow"
    /\ res.hop = 3 /\ res.url = U(3)
    /\ decision.next = U(4)

C23_DistinctUrls ==
    redirect_policy.kind = "Limit" =>
        /\ \A i, j \in 1..Len(sent) : i # j => sent[i] # sent[j]
        /\ (pc = "Sending" /\ Len(sent) >= 1) => url \notin Range(sent)

C23_Witness ==
    /\ redirect_policy.kind = "Limit"
    /\ pc = "Done" /\ Len(sent) = 3 /\ Answered
    /\ Redirecting /\ Resolvable
    /\ Candidate = sent[1]
    /\ decision.action = "LoopDetected"
    /\ result.kind = "RedirectLoop"

\* C24: one send works with one value of the auto-decompress flag: when the
\* caller set neither Accept-Encoding nor Range, the response send returns is
\* marked for decompression exactly when the request asked for gzip, even
\* while another thread calls Client::gzip.
C24_GzipReadOnce ==
    (/\ result.kind = "Ok"
     /\ ~Has(builder.headers, "AcceptEncoding")
     /\ ~Has(builder.headers, "Range"))
        => (result.ungzip <=> req.headers["AcceptEncoding"] = Str("gzip"))

====
